---- MODULE Spec2Model ----
(***************************************************************************)
(* Meta-Forge Generator (src/Meta_Forge_Generator.py): the constitutional  *)
(* kernel's validation of a domain specification, the hardware-aware       *)
(* architecture selection, the forge file list and the generation log.     *)
(*                                                                         *)
(* Python dicts are functions with a finite domain of string keys          *)
(* (`k in d` is k \in DOMAIN d), lists are sequences, str is STRING with   *)
(* \o for f-string concatenation, None is the string "None".  A call's     *)
(* result is a record whose kind is "ok" or the name of the exception      *)
(* raised.                                                                 *)
(***************************************************************************)
EXTENDS Integers, Sequences, FiniteSets, TLC

VARIABLES
    generation_log,   \* MetaForgeGenerator.generation_log
    rules,            \* ConstitutionalKernel.rules
    calls,            \* number of calls made on the generator so far
    op,               \* the last call: "none", "validate", "plan", "generate", "describe"
    arg,              \* the arguments of the last call
    outcome,          \* what the last call returned or raised
    checked,          \* history: the membership tests the last validate call made
    returned,         \* history: [spec, params] of every plan that returned, in call order
    described,        \* history: [domain, architecture, files] of every file list returned
    threads           \* concurrent generate calls: thread -> [pc, spec, params, entry, result]

vars == <<generation_log, rules, calls, op, arg, outcome, checked, returned,
          described, threads>>

---------------------------------------------------------------------------
(* Bounds *)

MaxCalls == 3

NThreads == 2

---------------------------------------------------------------------------
(* Python dict and str helpers *)

EmptyDict == <<>>

None == "None"

Has(d, k) == k \in DOMAIN d

Get(d, k, default) == IF k \in DOMAIN d THEN d[k] ELSE default

Contains(s, t) ==
    \E i \in 1..(Len(s) - Len(t) + 1) : SubSeq(s, i, i + Len(t) - 1) = t

StartsWith(s, t) == Len(s) >= Len(t) /\ SubSeq(s, 1, Len(t)) = t

IsPrefix(s, t) == Len(s) <= Len(t) /\ SubSeq(t, 1, Len(s)) = s

---------------------------------------------------------------------------
(* Domain specifications: every shape of the dict the code reads *)

Patterns == {[name |-> "compatibility_management"]}

Domains == {"skyrim_modding_ecosystem", "seed_library"}

KnownHardware == {"raspberry_pi", "desktop", "dedicated", "cloud"}

Hardware == KnownHardware \cup {"mainframe"}

Capacities == {"basic", "advanced"}

Architectures == {"two_node", "decoupled_dain", "decoupled_non_dain"}

\* the key k is absent, or bound to one of vals
Opt(k, vals) == {EmptyDict} \cup {k :> v : v \in vals}

ContextDicts == Opt("domain", Domains)

ConstraintDicts ==
    {h @@ c : h \in Opt("hardware", Hardware),
              c \in Opt("technical_capacity", Capacities)}

CustomizationDicts == Opt("wants_ai_nodes", BOOLEAN)

AllSpecs ==
    {p @@ c @@ k @@ r :
        p \in Opt("pattern", Patterns),
        c \in Opt("context", ContextDicts),
        k \in Opt("constraints", ConstraintDicts),
        r \in Opt("customization_requests", CustomizationDicts)}

MkSpec(domain, hardware, capacity, wants) ==
    [pattern |-> [name |-> "compatibility_management"],
     context |-> [domain |-> domain],
     constraints |-> [hardware |-> hardware, technical_capacity |-> capacity],
     customization_requests |-> [wants_ai_nodes |-> wants]]

\* the demonstration's spec
skyrim_spec == MkSpec("skyrim_modding_ecosystem", "desktop", "basic", FALSE)

Without(d, k) == [x \in DOMAIN d \ {k} |-> d[x]]

\* the specs of call sequences: one per branch of the selection, one per missing key
SeqSpecs ==
    { skyrim_spec,
      MkSpec("seed_library", "raspberry_pi", "basic", TRUE),
      MkSpec("seed_library", "dedicated", "advanced", TRUE),
      MkSpec("skyrim_modding_ecosystem", "cloud", "basic", TRUE),
      Without(MkSpec("seed_library", "mainframe", "advanced", FALSE),
              "customization_requests"),
      Without(skyrim_spec, "pattern"),
      Without(skyrim_spec, "context"),
      [skyrim_spec EXCEPT !.context = EmptyDict],
      [skyrim_spec EXCEPT !.constraints = [hardware |-> "desktop"]],
      [skyrim_spec EXCEPT !.constraints = [technical_capacity |-> "basic"]] }

ConcSpecs ==
    { skyrim_spec,
      MkSpec("seed_library", "dedicated", "advanced", TRUE),
      MkSpec("seed_library", "cloud", "basic", TRUE),
      Without(skyrim_spec, "pattern") }

---------------------------------------------------------------------------
(* Results of a call *)

Ok(v) == [kind |-> "ok", value |-> v]

KeyError(k) == [kind |-> "KeyError", key |-> k]

ConstitutionalViolation(msg) == [kind |-> "ConstitutionalViolation", msg |-> msg]

---------------------------------------------------------------------------
(* ConstitutionalKernel *)

\* the kernel as loaded by _load_kernel
LoadedKernel == [constitutional_version |-> "0.1.0"]

\* a slip in the order of the list
required_fields_reversed == <<"constraints", "context", "pattern">>

required_fields == <<"pattern", "context", "constraints">>

\* the loop over required_fields: the first field, from position i on, that is
\* not in domain_spec; 0 when there is none
RECURSIVE FirstMissing(_, _)
FirstMissing(domain_spec, i) ==
    IF i > Len(required_fields) THEN 0
    ELSE IF ~Has(domain_spec, required_fields[i]) THEN i
    ELSE FirstMissing(domain_spec, i + 1)

\* the hardware check left out
validate_without_hardware(domain_spec) ==
    LET i == FirstMissing(domain_spec, 1) IN
    IF i # 0
    THEN ConstitutionalViolation("Missing required field: " \o required_fields[i])
    ELSE Ok(TRUE)

validate_domain_spec(domain_spec) ==
    LET i == FirstMissing(domain_spec, 1) IN
    IF i # 0
    THEN ConstitutionalViolation("Missing required field: " \o required_fields[i])
    ELSE IF ~Has(Get(domain_spec, "constraints", EmptyDict), "hardware")
    THEN ConstitutionalViolation("Hardware constraints required (Article 0)")
    ELSE Ok(TRUE)

\* the membership tests the call makes, in order, up to the one that raises
ChecksMade(domain_spec) ==
    LET i == FirstMissing(domain_spec, 1) IN
    IF i # 0 THEN SubSeq(required_fields, 1, i)
    ELSE Append(required_fields, "constraints.hardware")

---------------------------------------------------------------------------
(* MetaForgeGenerator *)

WarnHardware ==
    "DAIN generation disabled: Requires dedicated hardware for constitutional compliance"

WarnCapacity == "DAIN generation disabled: Requires advanced technical capacity"

_calculate_memory_limit(hardware_profile) ==
    CASE hardware_profile = "raspberry_pi" -> "3G"
      [] hardware_profile = "desktop" -> "6G"
      [] OTHER -> "1G"

\* one warnings list shared by every call, as a class-level or default-argument
\* list would be
SharedWarnings(log) == IF log = <<>> THEN <<>> ELSE log[Len(log)].warnings

\* generation_warnings=[] : a fresh list for every call
InitialWarnings(log) == <<>>

\* the two dedicated/cloud branches in the wrong order
SelectArchitectureSwapped(hardware, tech_capacity, wants_ai, requirements, warnings) ==
    LET params == [architecture |-> "two_node",
                   memory_limit |-> None,
                   enable_dain_generation |-> FALSE,
                   constitutional_requirements |-> requirements,
                   generation_warnings |-> warnings]
    IN
    IF hardware \in {"raspberry_pi", "desktop"}
    THEN [params EXCEPT
            !.architecture = "two_node",
            !.memory_limit = _calculate_memory_limit(hardware),
            !.generation_warnings =
                IF wants_ai THEN Append(@, WarnHardware) ELSE @]
    ELSE IF hardware \in {"dedicated", "cloud"}
    THEN [params EXCEPT
            !.architecture = "decoupled_non_dain",
            !.generation_warnings =
                IF wants_ai THEN Append(@, WarnCapacity) ELSE @]
    ELSE IF hardware \in {"dedicated", "cloud"} /\ tech_capacity = "advanced" /\ wants_ai
    THEN [params EXCEPT
            !.architecture = "decoupled_dain",
            !.enable_dain_generation = TRUE,
            !.memory_limit = IF hardware = "dedicated" THEN "4G" ELSE "8G"]
    ELSE params

\* the if/elif chain over the parameters initialised with the defaults
SelectArchitecture(hardware, tech_capacity, wants_ai, requirements, warnings) ==
    LET params == [architecture |-> "two_node",
                   memory_limit |-> None,
                   enable_dain_generation |-> FALSE,
                   constitutional_requirements |-> requirements,
                   generation_warnings |-> warnings]
    IN
    IF hardware \in {"raspberry_pi", "desktop"}
    THEN [params EXCEPT
            !.architecture = "two_node",
            !.memory_limit = _calculate_memory_limit(hardware),
            !.generation_warnings =
                IF wants_ai THEN Append(@, WarnHardware) ELSE @]
    ELSE IF hardware \in {"dedicated", "cloud"} /\ tech_capacity = "advanced" /\ wants_ai
    THEN [params EXCEPT
            !.architecture = "decoupled_dain",
            !.enable_dain_generation = TRUE,
            !.memory_limit = IF hardware = "dedicated" THEN "4G" ELSE "8G"]
    ELSE IF hardware \in {"dedicated", "cloud"}
    THEN [params EXCEPT
            !.architecture = "decoupled_non_dain",
            !.generation_warnings =
                IF wants_ai THEN Append(@, WarnCapacity) ELSE @]
    ELSE params

\* the subscripts of the three extraction lines, in order: the first key that
\* is missing, "" when none is
ExtractError(diagnostic_input) ==
    IF ~Has(diagnostic_input, "constraints") THEN "constraints"
    ELSE IF ~Has(diagnostic_input.constraints, "hardware") THEN "hardware"
    ELSE IF ~Has(diagnostic_input.constraints, "technical_capacity")
    THEN "technical_capacity"
    ELSE ""

\* the parameters the call computes before it logs
ComputeParams(diagnostic_input, log) ==
    SelectArchitecture(
        diagnostic_input.constraints.hardware,
        diagnostic_input.constraints.technical_capacity,
        Get(Get(diagnostic_input, "customization_requests", EmptyDict),
            "wants_ai_nodes", FALSE),
        Get(diagnostic_input, "constitutional_requirements", <<>>),
        InitialWarnings(log))

\* diagnostic_input['context']['domain']: the first key that is missing
DomainError(domain_spec) ==
    IF ~Has(domain_spec, "context") THEN "context"
    ELSE IF ~Has(domain_spec.context, "domain") THEN "domain"
    ELSE ""

\* the entry built from the defaults instead of the parameters selected
LogEntryDefaults(diagnostic_input, params) ==
    [domain |-> diagnostic_input.context.domain,
     architecture |-> "two_node",
     dain_enabled |-> FALSE,
     warnings |-> params.generation_warnings]

LogEntry(diagnostic_input, params) ==
    [domain |-> diagnostic_input.context.domain,
     architecture |-> params.architecture,
     dain_enabled |-> params.enable_dain_generation,
     warnings |-> params.generation_warnings]

\* insert(0, entry) in place of append(entry)
LogPrepend(log, entry) == <<entry>> \o log

\* a read of the length and a write by index in place of append(entry): the
\* last entry is overwritten
LogOverwrite(log, entry) ==
    IF log = <<>> THEN <<entry>> ELSE [log EXCEPT ![Len(log)] = entry]

\* self.generation_log.append(entry)
LogAppend(log, entry) == Append(log, entry)

\* the result and the generation log after the call
process_diagnostic_input(diagnostic_input, log) ==
    IF ExtractError(diagnostic_input) # ""
    THEN [result |-> KeyError(ExtractError(diagnostic_input)), log |-> log]
    ELSE LET params == ComputeParams(diagnostic_input, log) IN
         IF DomainError(diagnostic_input) # ""
         THEN [result |-> KeyError(DomainError(diagnostic_input)), log |-> log]
         ELSE [result |-> Ok(params),
               log |-> LogAppend(log, LogEntry(diagnostic_input, params))]

\* the AI files added for every decoupled architecture
_generate_forge_files_decoupled(domain_spec, params) ==
    IF DomainError(domain_spec) # "" THEN KeyError(DomainError(domain_spec))
    ELSE LET domain_name == domain_spec.context.domain
             files == <<
                domain_name \o "/kernel.yml -> Constitutional kernel (git submodule)",
                domain_name \o "/domain_config.json -> Domain-specific configuration",
                domain_name \o "/docker-compose.yml -> Deployment configuration",
                domain_name \o "/constitutional_linter.py -> Rule enforcement system",
                domain_name \o "/README.md -> Usage instructions" >>
         IN Ok(IF params.architecture # "two_node"
               THEN files \o <<
                    domain_name \o "/docker-compose.dain.yml -> AI node deployment",
                    domain_name \o "/dain_c_agent.py -> Constitutional audit AI" >>
               ELSE files)

_generate_forge_files(domain_spec, params) ==
    IF DomainError(domain_spec) # "" THEN KeyError(DomainError(domain_spec))
    ELSE LET domain_name == domain_spec.context.domain
             files == <<
                domain_name \o "/kernel.yml -> Constitutional kernel (git submodule)",
                domain_name \o "/domain_config.json -> Domain-specific configuration",
                domain_name \o "/docker-compose.yml -> Deployment configuration",
                domain_name \o "/constitutional_linter.py -> Rule enforcement system",
                domain_name \o "/README.md -> Usage instructions" >>
         IN Ok(IF params.architecture = "decoupled_dain"
               THEN files \o <<
                    domain_name \o "/docker-compose.dain.yml -> AI node deployment",
                    domain_name \o "/dain_c_agent.py -> Constitutional audit AI" >>
               ELSE files)

\* the forge specification assembled after planning
ForgeSpec(domain_spec, params) ==
    [domain |-> domain_spec.context.domain,
     generated_date |-> "2024-01-15",
     architecture |-> params.architecture,
     constitutional_compliance |-> "verified",
     files_generated |-> _generate_forge_files(domain_spec, params).value,
     success_metrics |-> Get(domain_spec, "success_metrics", <<>>),
     warnings |-> params.generation_warnings]

\* the result, the generation log after the call and the plan it made (if any)
generate_forge(domain_spec, log) ==
    IF DomainError(domain_spec) # ""
    THEN [result |-> KeyError(DomainError(domain_spec)), log |-> log, plan |-> None]
    ELSE IF validate_domain_spec(domain_spec).kind # "ok"
    THEN [result |-> validate_domain_spec(domain_spec), log |-> log, plan |-> None]
    ELSE LET p == process_diagnostic_input(domain_spec, log) IN
         IF p.result.kind # "ok"
         THEN [result |-> p.result, log |-> p.log, plan |-> None]
         ELSE [result |-> Ok(ForgeSpec(domain_spec, p.result.value)),
               log |-> p.log, plan |-> p.result.value]

---------------------------------------------------------------------------
(* The generator after construction, and one action per call *)

NoArg == [none |-> TRUE]

Init ==
    /\ generation_log = <<>>
    /\ rules = LoadedKernel
    /\ calls = 0
    /\ op = "none"
    /\ arg = NoArg
    /\ outcome = Ok(None)
    /\ checked = <<>>
    /\ returned = <<>>
    /\ described = {}
    /\ threads = <<>>

\* kernel.validate_domain_spec(s)
Validate(s) ==
    /\ calls < MaxCalls
    /\ calls' = calls + 1
    /\ op' = "validate"
    /\ arg' = [spec |-> s]
    /\ outcome' = validate_domain_spec(s)
    /\ checked' = ChecksMade(s)
    /\ UNCHANGED <<generation_log, rules, returned, described, threads>>

\* forge_generator.process_diagnostic_input(s)
Plan(s) ==
    LET r == process_diagnostic_input(s, generation_log) IN
    /\ calls < MaxCalls
    /\ calls' = calls + 1
    /\ op' = "plan"
    /\ arg' = [spec |-> s]
    /\ outcome' = r.result
    /\ generation_log' = r.log
    /\ returned' = IF r.result.kind = "ok"
                   THEN Append(returned, [spec |-> s, params |-> r.result.value])
                   ELSE returned
    /\ UNCHANGED <<rules, checked, described, threads>>

\* forge_generator.generate_forge(s)
Generate(s) ==
    LET r == generate_forge(s, generation_log) IN
    /\ calls < MaxCalls
    /\ calls' = calls + 1
    /\ op' = "generate"
    /\ arg' = [spec |-> s]
    /\ outcome' = r.result
    /\ generation_log' = r.log
    /\ returned' = IF r.result.kind = "ok"
                   THEN Append(returned, [spec |-> s, params |-> r.plan])
                   ELSE returned
    /\ UNCHANGED <<rules, checked, described, threads>>

\* the parameters handed to _generate_forge_files: every architecture, with
\* and without a memory limit
DescribeParams ==
    {[architecture |-> a,
      memory_limit |-> m,
      enable_dain_generation |-> (a = "decoupled_dain"),
      constitutional_requirements |-> <<>>,
      generation_warnings |-> <<>>] :
        a \in Architectures, m \in {None, "4G"}}

\* forge_generator._generate_forge_files(s, p)
Describe(s, p) ==
    LET r == _generate_forge_files(s, p) IN
    /\ calls < MaxCalls
    /\ calls' = calls + 1
    /\ op' = "describe"
    /\ arg' = [spec |-> s, params |-> p]
    /\ outcome' = r
    /\ described' = IF r.kind = "ok"
                    THEN described \cup {[domain |-> s.context.domain,
                                          architecture |-> p.architecture,
                                          files |-> r.value]}
                    ELSE described
    /\ UNCHANGED <<generation_log, rules, checked, returned, threads>>

\* any sequence of calls on one generator
Next ==
    \E s \in SeqSpecs :
        \/ Validate(s)
        \/ Plan(s)
        \/ Generate(s)
        \/ \E p \in DescribeParams : Describe(s, p)

Spec == Init /\ [][Next]_vars

\* the first call on a fresh generator, with any domain specification
FirstValidate(s) == calls = 0 /\ Validate(s)

FirstPlan(s) == calls = 0 /\ Plan(s)

FirstGenerate(s) == calls = 0 /\ Generate(s)

FirstDescribe(s, p) == calls = 0 /\ Describe(s, p)

NextOnce ==
    \E s \in AllSpecs :
        \/ FirstValidate(s)
        \/ FirstPlan(s)
        \/ FirstGenerate(s)
        \/ \E p \in DescribeParams : FirstDescribe(s, p)

SpecOnce == Init /\ [][NextOnce]_vars

---------------------------------------------------------------------------
(* Concurrent generate_forge calls on one generator: each thread runs the    *)
(* method's statements in order, the threads interleave between statements,  *)
(* and list.append is one atomic step of the interpreter.                    *)

Threads == 1..NThreads

InitConc ==
    /\ generation_log = <<>>
    /\ rules = LoadedKernel
    /\ calls = 0
    /\ op = "none"
    /\ arg = NoArg
    /\ outcome = Ok(None)
    /\ checked = <<>>
    /\ returned = <<>>
    /\ described = {}
    /\ threads \in [Threads -> {[pc |-> "start", spec |-> s, params |-> None,
                                 entry |-> None, result |-> None] : s \in ConcSpecs}]

Raise(t, e) == threads' = [threads EXCEPT ![t].pc = "failed", ![t].result = e]

\* the domain read for the banner, then kernel.validate_domain_spec
EnterGenerate(t) ==
    /\ threads[t].pc = "start"
    /\ IF DomainError(threads[t].spec) # ""
       THEN Raise(t, KeyError(DomainError(threads[t].spec)))
       ELSE IF validate_domain_spec(threads[t].spec).kind # "ok"
       THEN Raise(t, validate_domain_spec(threads[t].spec))
       ELSE threads' = [threads EXCEPT ![t].pc = "select"]
    /\ UNCHANGED <<generation_log, rules, calls, op, arg, outcome, checked,
                   returned, described>>

\* process_diagnostic_input up to the end of the if/elif chain
SelectParams(t) ==
    /\ threads[t].pc = "select"
    /\ IF ExtractError(threads[t].spec) # ""
       THEN Raise(t, KeyError(ExtractError(threads[t].spec)))
       ELSE threads' = [threads EXCEPT
                           ![t].pc = "entry",
                           ![t].params = ComputeParams(threads[t].spec, generation_log)]
    /\ UNCHANGED <<generation_log, rules, calls, op, arg, outcome, checked,
                   returned, described>>

\* the dict display that is the argument of append
BuildEntry(t) ==
    /\ threads[t].pc = "entry"
    /\ IF DomainError(threads[t].spec) # ""
       THEN Raise(t, KeyError(DomainError(threads[t].spec)))
       ELSE threads' = [threads EXCEPT
                           ![t].pc = "append",
                           ![t].entry = LogEntry(threads[t].spec, threads[t].params)]
    /\ UNCHANGED <<generation_log, rules, calls, op, arg, outcome, checked,
                   returned, described>>

\* self.generation_log.append(...)
AppendEntry(t) ==
    /\ threads[t].pc = "append"
    /\ generation_log' = LogAppend(generation_log, threads[t].entry)
    /\ threads' = [threads EXCEPT ![t].pc = "assemble"]
    /\ UNCHANGED <<rules, calls, op, arg, outcome, checked, returned, described>>

\* the forge specification, and the return
AssembleForge(t) ==
    /\ threads[t].pc = "assemble"
    /\ threads' = [threads EXCEPT
                      ![t].pc = "done",
                      ![t].result = Ok(ForgeSpec(threads[t].spec, threads[t].params))]
    /\ UNCHANGED <<generation_log, rules, calls, op, arg, outcome, checked,
                   returned, described>>

NextConc ==
    \E t \in Threads :
        \/ EnterGenerate(t)
        \/ SelectParams(t)
        \/ BuildEntry(t)
        \/ AppendEntry(t)
        \/ AssembleForge(t)

SpecConc == InitConc /\ [][NextConc]_vars

---------------------------------------------------------------------------
(* Properties of one call (SpecOnce) *)

\* the keys the decision table reads, and the domain the log entry needs
Plannable(s) ==
    /\ Has(s, "constraints")
    /\ Has(s.constraints, "hardware")
    /\ Has(s.constraints, "technical_capacity")
    /\ Has(s, "context")
    /\ Has(s.context, "domain")

\* wants_ai_nodes, FALSE when it is absent
WantsAi(s) ==
    /\ Has(s, "customization_requests")
    /\ Has(s.customization_requests, "wants_ai_nodes")
    /\ s.customization_requests.wants_ai_nodes

\* the row of the decision table for (hardware, capacity, wants): what the
\* one warning, if any, is about is given by the words it must contain
TableRow(hardware, capacity, wants) ==
    CASE hardware \in {"raspberry_pi", "desktop"} ->
            [architecture |-> "two_node",
             memory_limit |-> IF hardware = "raspberry_pi" THEN "3G" ELSE "6G",
             ai_enabled |-> FALSE,
             warning |-> IF wants THEN "dedicated hardware" ELSE ""]
      [] hardware \in {"dedicated", "cloud"} /\ capacity = "advanced" /\ wants ->
            [architecture |-> "decoupled_dain",
             memory_limit |-> IF hardware = "dedicated" THEN "4G" ELSE "8G",
             ai_enabled |-> TRUE,
             warning |-> ""]
      [] hardware \in {"dedicated", "cloud"} /\ ~(capacity = "advanced" /\ wants) ->
            [architecture |-> "decoupled_non_dain",
             memory_limit |-> None,
             ai_enabled |-> FALSE,
             warning |-> IF wants THEN "technical capacity" ELSE ""]
      [] OTHER ->
            [architecture |-> "two_node",
             memory_limit |-> None,
             ai_enabled |-> FALSE,
             warning |-> ""]

MatchesRow(params, row) ==
    /\ params.architecture = row.architecture
    /\ params.memory_limit = row.memory_limit
    /\ params.enable_dain_generation = row.ai_enabled
    /\ Len(params.generation_warnings) = (IF row.warning = "" THEN 0 ELSE 1)
    /\ row.warning # "" => Contains(params.generation_warnings[1], row.warning)

\* C1: for every hardware (known or not), technical_capacity and wants_ai_nodes
\* (true, false, absent), plan returns the first matching row of the decision
\* table, and never more than one warning.
C1_PlanFollowsDecisionTable ==
    (op = "plan" /\ Plannable(arg.spec)) =>
        /\ outcome.kind = "ok"
        /\ MatchesRow(outcome.value,
                      TableRow(arg.spec.constraints.hardware,
                               arg.spec.constraints.technical_capacity,
                               WantsAi(arg.spec)))
        /\ Len(outcome.value.generation_warnings) <= 1

\* dedicated hardware, basic capacity, AI nodes wanted: the third row, with its warning
C1_Witness ==
    /\ op = "plan"
    /\ Plannable(arg.spec)
    /\ arg.spec.constraints.hardware = "dedicated"
    /\ arg.spec.constraints.technical_capacity = "basic"
    /\ WantsAi(arg.spec)
    /\ outcome.kind = "ok"
    /\ outcome.value.architecture = "decoupled_non_dain"
    /\ Len(outcome.value.generation_warnings) = 1

FourFields == <<"pattern", "context", "constraints", "constraints.hardware">>

\* the required fields a spec lacks; constraints.hardware is a field of its own
\* when there is a constraints dict to hold it
Absent(s) ==
    {f \in {"pattern", "context", "constraints"} : ~Has(s, f)}
    \cup (IF Has(s, "constraints") /\ ~Has(s.constraints, "hardware")
          THEN {"constraints.hardware"} ELSE {})

\* the first absent field in the order of FourFields
FirstAbsent(s) ==
    FourFields[CHOOSE i \in 1..4 :
                  /\ FourFields[i] \in Absent(s)
                  /\ \A j \in 1..(i - 1) : FourFields[j] \notin Absent(s)]

\* the violation's message names field f: "Missing required field: f" for a
\* top-level field, "Hardware constraints required ..." for constraints.hardware
Names(msg, f) ==
    IF f = "constraints.hardware"
    THEN StartsWith(msg, "Hardware constraints required")
    ELSE msg = "Missing required field: " \o f

\* C2: validate succeeds iff pattern, context, constraints and
\* constraints.hardware are all present; with exactly one of them absent it
\* fails with a ConstitutionalViolation naming that field.
C2_ValidateIffFourFields ==
    op = "validate" =>
        /\ (outcome.kind = "ok") <=> (Absent(arg.spec) = {})
        /\ \A f \in Absent(arg.spec) :
              Absent(arg.spec) = {f} =>
                  /\ outcome.kind = "ConstitutionalViolation"
                  /\ Names(outcome.msg, f)

\* a spec lacking only constraints.hardware is rejected
C2_Witness ==
    /\ op = "validate"
    /\ Absent(arg.spec) = {"constraints.hardware"}
    /\ outcome.kind = "ConstitutionalViolation"

\* C3: for every spec validate rejects, generate fails with the
\* ConstitutionalViolation of validation and with no other kind of error.
C3_GenerateFailsWithViolation ==
    (op = "generate" /\ Absent(arg.spec) # {}) =>
        /\ outcome.kind = "ConstitutionalViolation"
        /\ Names(outcome.msg, FirstAbsent(arg.spec))

\* C7: with several required fields missing, validate raises one
\* ConstitutionalViolation, for the first in the order pattern, context,
\* constraints, constraints.hardware; it makes no check after that one and
\* leaves the rule set unchanged.
C7_ValidateReportsFirstMissing ==
    (op = "validate" /\ Absent(arg.spec) # {}) =>
        /\ outcome.kind = "ConstitutionalViolation"
        /\ \A f \in {FourFields[i] : i \in 1..4} :
              Names(outcome.msg, f) <=> (f = FirstAbsent(arg.spec))
        /\ checked # <<>>
        /\ checked[Len(checked)] = FirstAbsent(arg.spec)
        /\ IsPrefix(checked, FourFields)
        /\ rules = LoadedKernel

\* pattern and constraints both missing: pattern is reported
C7_Witness ==
    /\ op = "validate"
    /\ {"pattern", "constraints"} \subseteq Absent(arg.spec)
    /\ outcome.kind = "ConstitutionalViolation"
    /\ checked = <<"pattern">>

\* C9: for every spec validate accepts, generate returns a result and raises
\* no error.
C9_GenerateReturnsForAcceptedSpec ==
    (op = "generate" /\ Absent(arg.spec) = {}) => outcome.kind = "ok"

---------------------------------------------------------------------------
(* Properties of call sequences (Spec) *)

\* C4 as stated: every generate or plan call lengthens the log by exactly one
\* entry and keeps every earlier entry in place.
C4_EveryCallAppendsOne ==
    [][(calls' = calls + 1 /\ op' \in {"plan", "generate"}) =>
          /\ Len(generation_log') = Len(generation_log) + 1
          /\ IsPrefix(generation_log, generation_log')]_vars

\* C4 amended: a generate or plan call that returns lengthens the log by
\* exactly one entry, one that raises leaves its length unchanged; in both
\* cases every earlier entry stays in place with the same content.
C4_ReturningCallAppendsOne ==
    [][(calls' = calls + 1 /\ op' \in {"plan", "generate"}) =>
          /\ Len(generation_log') =
                Len(generation_log) + (IF outcome'.kind = "ok" THEN 1 ELSE 0)
          /\ IsPrefix(generation_log, generation_log')]_vars

\* a call returned on a log that already held two different entries
C4_Witness ==
    /\ op \in {"plan", "generate"}
    /\ outcome.kind = "ok"
    /\ Len(generation_log) = 3
    /\ generation_log[1] # generation_log[2]
    /\ generation_log[2] # generation_log[3]

\* C5: the file list has 5 descriptors, 7 for decoupled_dain, each with the
\* domain as path prefix; lists for the same domain share their first 5, and
\* lists for the same (domain, architecture) are the same list.
C5_ForgeFiles ==
    /\ \A d \in described :
          /\ Len(d.files) = (IF d.architecture = "decoupled_dain" THEN 7 ELSE 5)
          /\ \A i \in 1..Len(d.files) : StartsWith(d.files[i], d.domain \o "/")
    /\ \A d, e \in described :
          /\ d.domain = e.domain => SubSeq(d.files, 1, 5) = SubSeq(e.files, 1, 5)
          /\ (d.domain = e.domain /\ d.architecture = e.architecture) =>
                d.files = e.files

\* file lists of every architecture were returned for one domain, from calls
\* whose other arguments differ
C5_Witness ==
    /\ calls = 3
    /\ op = "describe"
    /\ arg.params.memory_limit = "4G"
    /\ \E d \in Domains :
          \A a \in Architectures :
              \E x \in described : x.domain = d /\ x.architecture = a

PlanView(params) ==
    <<params.architecture, params.memory_limit, params.enable_dain_generation,
      params.generation_warnings>>

\* C6: two plans of the same spec return the same architecture, memory_limit,
\* ai_enabled and warnings, whatever the log holds and whatever was called in
\* between.
C6_PlanDeterministic ==
    \A i, j \in 1..Len(returned) :
        returned[i].spec = returned[j].spec =>
            PlanView(returned[i].params) = PlanView(returned[j].params)

\* the same spec, one that draws a warning, planned twice with a plan of another
\* spec in between
C6_Witness ==
    /\ Len(returned) = 3
    /\ returned[1].spec = returned[3].spec
    /\ returned[2].spec # returned[1].spec
    /\ returned[1].params.generation_warnings # <<>>
    /\ returned[2].params.generation_warnings # <<>>

\* C10: the log lists the calls that returned, in call order: entry i holds
\* the domain of the i-th such call's spec and the architecture, AI flag and
\* warnings of the plan it returned; a call that raises adds no entry.
C10_LogMirrorsReturnedPlans ==
    /\ Len(generation_log) = Len(returned)
    /\ \A i \in 1..Len(returned) :
          generation_log[i] =
              [domain |-> returned[i].spec.context.domain,
               architecture |-> returned[i].params.architecture,
               dain_enabled |-> returned[i].params.enable_dain_generation,
               warnings |-> returned[i].params.generation_warnings]

\* two plans of different domains and architectures returned around a call that raised
C10_Witness ==
    /\ calls = 3
    /\ Len(generation_log) = 2
    /\ op = "plan"
    /\ outcome.kind = "ok"
    /\ generation_log[1].domain # generation_log[2].domain
    /\ generation_log[1].architecture = "decoupled_dain"
    /\ generation_log[2].architecture = "two_node"

---------------------------------------------------------------------------
(* Properties of concurrent calls (SpecConc) *)

Finished == \A t \in Threads : threads[t].pc \in {"done", "failed"}

\* the threads whose call has appended
Appended == {t \in Threads : threads[t].pc \in {"assemble", "done"}}

\* entry e holds the domain of thread t's spec and the architecture, AI flag
\* and warnings thread t selected
EntryOf(e, t) ==
    /\ e.domain = threads[t].spec.context.domain
    /\ e.architecture = threads[t].params.architecture
    /\ e.dain_enabled = threads[t].params.enable_dain_generation
    /\ e.warnings = threads[t].params.generation_warnings

\* the log positions and the threads in T correspond one to one, each entry
\* being that of its thread
OneEntryPerCall(T) ==
    /\ Len(generation_log) = Cardinality(T)
    /\ \E f \in [1..Len(generation_log) -> T] :
          /\ \A i, j \in 1..Len(generation_log) : f[i] = f[j] => i = j
          /\ \A i \in 1..Len(generation_log) : EntryOf(generation_log[i], f[i])

\* C8 as stated: once all N concurrent generate calls have finished, the log
\* holds N entries, one per call, each entry's fields from one call.
C8_OneEntryPerCall == Finished => OneEntryPerCall(Threads)

\* C8 amended: at every moment the log holds one entry per call that has
\* appended, each entry's fields from that one call; once all calls have
\* finished these are the calls that returned, a call that raised added none.
C8_OneEntryPerReturnedCall ==
    /\ OneEntryPerCall(Appended)
    /\ Finished => Appended = {t \in Threads : threads[t].result.kind = "ok"}

\* all calls returned, and the first entry is not the first thread's
C8_Witness ==
    /\ \A t \in Threads : threads[t].pc = "done"
    /\ Len(generation_log) = NThreads
    /\ EntryOf(generation_log[1], 2)
    /\ ~EntryOf(generation_log[1], 1)

====
